---------------------------- MODULE Spec2Model ----------------------------
(***************************************************************************)
(* A model of the pybacktest trading ledger (src/pybacktest/trade.py) and  *)
(* of the per-bar strategy loops that drive it (src/pybacktest/strategy.py *)
(* and src/pybacktest/advanced_demo_strategy_akshare.py).                  *)
(*                                                                         *)
(* Money, prices, rates and fractions are exact rationals <<n, d>> in      *)
(* lowest terms with d > 0; share counts and dates are integers.           *)
(***************************************************************************)
EXTENDS Integers, Sequences, FiniteSets, TLC

VARIABLES
    initial_cash,           \* TradeManager.initial_cash
    trade_cost,             \* TradeManager.trade_cost (a TradeCost)
    cash,                   \* TradeManager.cash
    positions,              \* TradeManager.positions: symbol -> Position
    trade_history,          \* TradeManager.trade_history
    daily_portfolio_value,  \* TradeManager.daily_portfolio_value
    call,                   \* the last call made on the account (op), its arguments, and
                            \* the call made before it (prev)
    ret,                    \* what that call returned or raised
    clock,                  \* number of calls made so far (the caller's date)
    run,                    \* the state of a strategy run (loop position, df rows)
    performance             \* Performance: stats and trade_stats['paired_trades']

vars == <<initial_cash, trade_cost, cash, positions, trade_history, daily_portfolio_value,
          call, ret, clock, run, performance>>

---------------------------------------------------------------------------
(* Exact arithmetic standing for Python's float arithmetic.                *)

Abs(n) == IF n < 0 THEN -n ELSE n

RECURSIVE GCD(_, _)
GCD(a, b) == IF b = 0 THEN a ELSE GCD(b, a % b)

Norm(n, d) ==
    LET g == GCD(Abs(n), d)
    IN  IF n = 0 THEN <<0, 1>> ELSE <<n \div g, d \div g>>

R(n) == <<n, 1>>
Zero == <<0, 1>>
One == <<1, 1>>

LCM(a, b) == (a \div GCD(a, b)) * b

RAdd(a, b) ==
    LET l == LCM(a[2], b[2])
    IN  Norm(a[1] * (l \div a[2]) + b[1] * (l \div b[2]), l)

RNeg(a) == <<-a[1], a[2]>>

RSub(a, b) == RAdd(a, RNeg(b))

RMul(a, b) ==
    LET g1 == GCD(Abs(a[1]), b[2])
        g2 == GCD(Abs(b[1]), a[2])
    IN  IF a[1] = 0 \/ b[1] = 0 THEN Zero
        ELSE <<(a[1] \div g1) * (b[1] \div g2), (a[2] \div g2) * (b[2] \div g1)>>

\* a / b for b # 0
RDiv(a, b) ==
    IF b[1] > 0 THEN RMul(a, <<b[2], b[1]>>) ELSE RMul(a, <<-b[2], -b[1]>>)

RLt(a, b) == RSub(a, b)[1] < 0
RLe(a, b) == RSub(a, b)[1] <= 0
RMax(a, b) == IF RLt(a, b) THEN b ELSE a

\* Python's int(x): truncation toward zero
Trunc(a) == IF a[1] >= 0 THEN a[1] \div a[2] ELSE -((-a[1]) \div a[2])

---------------------------------------------------------------------------
(* Absent optional arguments and partial maps.                             *)

None == <<>>
Some(x) == <<x>>
Val(o) == o[1]

EmptyDict == [s \in {} |-> Zero]
Put(d, k, v) == [s \in (DOMAIN d) \cup {k} |-> IF s = k THEN v ELSE d[s]]

---------------------------------------------------------------------------
(* TradeCost                                                               *)

\* The lot size the sizing rules round to.
LotSize == 100

\* TradeCost() with its default arguments: 0.0003, 5.0, 0.0001
DefaultTradeCost ==
    [commission_rate |-> <<3, 10000>>, min_commission |-> R(5), slippage_rate |-> <<1, 10000>>]

\* A cost configuration with all rates zero
ZeroTradeCost ==
    [commission_rate |-> Zero, min_commission |-> Zero, slippage_rate |-> Zero]

\* A cost configuration with zero rates and the default minimum commission
MinOnlyTradeCost ==
    [commission_rate |-> Zero, min_commission |-> R(5), slippage_rate |-> Zero]

\* A mutant of calculate_commission: the minimum commission is not applied.
calculate_commission_no_min(tc, price, shares) ==
    RMul(RMul(price, R(shares)), tc.commission_rate)

calculate_commission(tc, price, shares) ==
    RMax(RMul(RMul(price, R(shares)), tc.commission_rate), tc.min_commission)

calculate(tc, price, shares) ==
    LET commission == calculate_commission(tc, price, shares)
        slippage == RMul(RMul(price, R(shares)), tc.slippage_rate)
    IN  [commission |-> commission, slippage |-> slippage,
         total_cost |-> RAdd(commission, slippage)]

---------------------------------------------------------------------------
(* Position                                                                *)

Position(symbol) ==
    [symbol |-> symbol, shares |-> 0, avg_price |-> Zero, cost_basis |-> Zero]

\* A mutant of add: the average price is not recomputed.
add_keeps_avg_price(pos, shares, price) ==
    IF shares <= 0 THEN pos
    ELSE [pos EXCEPT !.shares = pos.shares + shares,
                     !.cost_basis = RAdd(pos.cost_basis, RMul(R(shares), price))]

add(pos, shares, price) ==
    IF shares <= 0 THEN pos
    ELSE LET total_cost == RAdd(pos.cost_basis, RMul(R(shares), price))
             total_shares == pos.shares + shares
         IN  [pos EXCEPT !.shares = total_shares,
                         !.cost_basis = total_cost,
                         !.avg_price = IF total_shares > 0
                                       THEN RDiv(total_cost, R(total_shares)) ELSE Zero]

\* A mutant of remove: the average price survives the sale of the last share.
remove_keeps_avg_price(pos, shares) ==
    IF shares <= 0 THEN pos
    ELSE LET actual_shares == IF shares < pos.shares THEN shares ELSE pos.shares
             left == pos.shares - actual_shares
         IN  [pos EXCEPT !.shares = left, !.cost_basis = RMul(R(left), pos.avg_price)]

remove(pos, shares) ==
    IF shares <= 0 THEN pos
    ELSE LET actual_shares == IF shares < pos.shares THEN shares ELSE pos.shares
             left == pos.shares - actual_shares
         IN  IF left = 0
             THEN [pos EXCEPT !.shares = 0, !.avg_price = Zero, !.cost_basis = Zero]
             ELSE [pos EXCEPT !.shares = left,
                              !.cost_basis = RMul(R(left), pos.avg_price)]

market_value(pos, current_price) == RMul(R(pos.shares), current_price)

---------------------------------------------------------------------------
(* TradeRecord                                                             *)

TradeRecord(date, symbol, trade_type, price, shares, commission, slippage, total_cost, cash_change, cash_balance) ==
    [date |-> date, symbol |-> symbol, trade_type |-> trade_type, price |-> price,
     shares |-> shares, commission |-> commission, slippage |-> slippage,
     total_cost |-> total_cost, cash_change |-> cash_change,
     cash_balance |-> cash_balance]

---------------------------------------------------------------------------
(* TradeManager: each operation maps the account and the call's arguments  *)
(* to the account after the call and what the call returned or raised.     *)

\* The account fields buy and sell read and write
Account == [cash |-> cash, positions |-> positions, trade_history |-> trade_history]

\* raise ValueError(...): nothing has been written when buy and sell raise
Raise(st, error) == [ret |-> [kind |-> "raise", error |-> error, record |-> <<>>]] @@ st

\* A mutant of ReturnNone: the position entry is created before the cash check.
ReturnNone_position_created(st, symbol) ==
    [ret |-> [kind |-> "None", error |-> "", record |-> <<>>]]
        @@ [st EXCEPT !.positions =
                IF symbol \in DOMAIN st.positions THEN st.positions
                ELSE Put(st.positions, symbol, Position(symbol))]

\* return None: nothing has been written when buy and sell return None
ReturnNone(st, symbol) == [ret |-> [kind |-> "None", error |-> "", record |-> <<>>]] @@ st

\* A mutant of buy_shares_from_amount: the share count is not rounded to lots.
buy_shares_from_amount_unrounded(amount, price, allow_partial) ==
    Trunc(RDiv(amount, price))

\* buy, lines 229-234: the share count of a buy sized by amount
buy_shares_from_amount(amount, price, allow_partial) ==
    LET max_shares == RDiv(amount, price)
        shares == Trunc(RDiv(max_shares, R(LotSize))) * LotSize
    IN  IF shares = 0 /\ allow_partial /\ RLe(One, max_shares) THEN LotSize ELSE shares

\* buy, line 248: the share count of the insufficient-cash fallback
buy_max_shares(tc, cash_, price) ==
    Trunc(RDiv(RDiv(cash_, RMul(price, RAdd(One, RAdd(tc.commission_rate, tc.slippage_rate)))),
               R(LotSize))) * LotSize

\* A mutant of buy_commit: the record's cash_change leaves out the trading costs.
buy_commit_change_without_cost(st, tc, date, symbol, price, shares) ==
    LET c == calculate(tc, price, shares)
        total_spend == RAdd(RMul(price, R(shares)), c.total_cost)
        cash_ == RSub(st.cash, total_spend)
        pos == IF symbol \in DOMAIN st.positions THEN st.positions[symbol]
               ELSE Position(symbol)
        trade_record == TradeRecord(date, symbol, "BUY", price, shares, c.commission,
                                    c.slippage, c.total_cost, RNeg(RMul(price, R(shares))),
                                    cash_)
    IN  [ret |-> [kind |-> "record", error |-> "", record |-> <<trade_record>>],
         cash |-> cash_,
         positions |-> Put(st.positions, symbol, add(pos, shares, price)),
         trade_history |-> Append(st.trade_history, trade_record)]

\* buy, lines 256-281: the committed fill
buy_commit(st, tc, date, symbol, price, shares) ==
    LET c == calculate(tc, price, shares)
        total_spend == RAdd(RMul(price, R(shares)), c.total_cost)
        cash_ == RSub(st.cash, total_spend)
        pos == IF symbol \in DOMAIN st.positions THEN st.positions[symbol]
               ELSE Position(symbol)
        trade_record == TradeRecord(date, symbol, "BUY", price, shares, c.commission,
                                    c.slippage, c.total_cost, RNeg(total_spend), cash_)
    IN  [ret |-> [kind |-> "record", error |-> "", record |-> <<trade_record>>],
         cash |-> cash_,
         positions |-> Put(st.positions, symbol, add(pos, shares, price)),
         trade_history |-> Append(st.trade_history, trade_record)]

buy(st, tc, date, symbol, price, shares, amount, allow_partial) ==
    IF RLe(price, Zero) THEN Raise(st, "ValueError: price")
    ELSE IF shares = None /\ amount = None THEN Raise(st, "ValueError: size")
    ELSE
        LET shares1 == IF shares = None
                       THEN buy_shares_from_amount(Val(amount), price, allow_partial)
                       ELSE Val(shares)
            total_spend == RAdd(RMul(price, R(shares1)),
                                calculate(tc, price, shares1).total_cost)
            short == RLt(st.cash, total_spend)
            max_shares == buy_max_shares(tc, st.cash, price)
        IN  IF short /\ (~allow_partial \/ max_shares = 0) THEN ReturnNone(st, symbol)
            ELSE buy_commit(st, tc, date, symbol, price,
                            IF short THEN max_shares ELSE shares1)

Min(a, b) == IF a < b THEN a ELSE b

\* A mutant of sell_shares: an explicit share count is rounded down to whole lots.
sell_shares_whole_lots(position, price, shares, amount, percent) ==
    Min(((IF shares # None THEN Val(shares) ELSE position.shares) \div LotSize) * LotSize,
        position.shares)

\* A mutant of sell_shares: the share count is not clamped to the held shares.
sell_shares_unclamped(position, price, shares, amount, percent) ==
    IF shares # None THEN Val(shares) ELSE position.shares

\* sell, lines 306-324: the share count of a sell, given the held position
sell_shares(position, price, shares, amount, percent) ==
    LET sized ==
            IF shares = None /\ amount = None /\ percent = None THEN position.shares
            ELSE IF shares = None /\ amount # None THEN
                LET s == Min(position.shares,
                             Trunc(RDiv(RDiv(Val(amount), price), R(LotSize))) * LotSize)
                IN  IF s = 0 /\ RLe(price, Val(amount))
                    THEN Min(position.shares, LotSize) ELSE s
            ELSE IF shares = None /\ percent # None THEN
                LET s == Trunc(RDiv(RMul(R(position.shares), Val(percent)), R(LotSize)))
                            * LotSize
                IN  IF s = 0 /\ RLt(Zero, Val(percent))
                    THEN Min(position.shares, LotSize) ELSE s
            ELSE Val(shares)
    IN  Min(sized, position.shares)

\* A mutant of sell_commit: the record carries the shares held, not the shares sold.
sell_commit_records_held(st, tc, date, symbol, price, shares) ==
    LET c == calculate(tc, price, shares)
        total_income == RSub(RMul(price, R(shares)), c.total_cost)
        cash_ == RAdd(st.cash, total_income)
        trade_record == TradeRecord(date, symbol, "SELL", price, st.positions[symbol].shares,
                                    c.commission, c.slippage, c.total_cost, total_income,
                                    cash_)
    IN  [ret |-> [kind |-> "record", error |-> "", record |-> <<trade_record>>],
         cash |-> cash_,
         positions |-> [st.positions EXCEPT ![symbol] = remove(@, shares)],
         trade_history |-> Append(st.trade_history, trade_record)]

\* sell, lines 326-355: the committed fill
sell_commit(st, tc, date, symbol, price, shares) ==
    LET c == calculate(tc, price, shares)
        total_income == RSub(RMul(price, R(shares)), c.total_cost)
        cash_ == RAdd(st.cash, total_income)
        trade_record == TradeRecord(date, symbol, "SELL", price, shares, c.commission,
                                    c.slippage, c.total_cost, total_income, cash_)
    IN  [ret |-> [kind |-> "record", error |-> "", record |-> <<trade_record>>],
         cash |-> cash_,
         positions |-> [st.positions EXCEPT ![symbol] = remove(@, shares)],
         trade_history |-> Append(st.trade_history, trade_record)]

sell(st, tc, date, symbol, price, shares, amount, percent) ==
    IF RLe(price, Zero) THEN Raise(st, "ValueError: price")
    ELSE IF symbol \notin DOMAIN st.positions THEN ReturnNone(st, symbol)
    ELSE IF st.positions[symbol].shares = 0 THEN ReturnNone(st, symbol)
    ELSE IF shares = None /\ amount = None /\ percent # None
            /\ ~(RLe(Zero, Val(percent)) /\ RLe(Val(percent), One))
         THEN Raise(st, "ValueError: percent")
    ELSE sell_commit(st, tc, date, symbol, price,
                     sell_shares(st.positions[symbol], price, shares, amount, percent))

RECURSIVE SumValues(_)
SumValues(d) ==
    IF DOMAIN d = {} THEN Zero
    ELSE LET k == CHOOSE k \in DOMAIN d : TRUE
         IN  RAdd(d[k], SumValues([s \in (DOMAIN d) \ {k} |-> d[s]]))

\* A mutant of value_position: a held symbol with no price is valued at its cost
\* basis in the total, and left out of positions_value.
value_position_unpriced_at_cost(acc, symbol, position, price_dict) ==
    IF position.shares > 0
    THEN IF symbol \in DOMAIN price_dict
         THEN LET mv == market_value(position, price_dict[symbol])
              IN  [positions_value |-> Put(acc.positions_value, symbol, mv),
                   portfolio_value |-> RAdd(acc.portfolio_value, mv)]
         ELSE [acc EXCEPT !.portfolio_value = RAdd(@, position.cost_basis)]
    ELSE acc

\* update_portfolio_value, lines 369-374: the loop body for one position
value_position(acc, symbol, position, price_dict) ==
    IF position.shares > 0
    THEN IF symbol \in DOMAIN price_dict
         THEN LET mv == market_value(position, price_dict[symbol])
              IN  [positions_value |-> Put(acc.positions_value, symbol, mv),
                   portfolio_value |-> RAdd(acc.portfolio_value, mv)]
         ELSE acc
    ELSE acc

\* update_portfolio_value, line 368: the loop over positions.items()
RECURSIVE value_positions(_, _, _, _)
value_positions(acc, todo, pos, price_dict) ==
    IF todo = {} THEN acc
    ELSE LET symbol == CHOOSE k \in todo : TRUE
         IN  value_positions(value_position(acc, symbol, pos[symbol], price_dict),
                             todo \ {symbol}, pos, price_dict)

\* update_portfolio_value, lines 365-382: the snapshot it appends
snapshot(date, cash_, pos, price_dict) ==
    LET acc == value_positions([positions_value |-> EmptyDict, portfolio_value |-> cash_],
                               DOMAIN pos, pos, price_dict)
    IN  [date |-> date, cash |-> cash_, positions_value |-> acc.positions_value,
         total_value |-> acc.portfolio_value]

\* reset, lines 432-443: the record reset appends
init_record(date, initial) ==
    TradeRecord(date, "", "INIT", Zero, 0, Zero, Zero, Zero, initial, initial)

---------------------------------------------------------------------------
(* The inputs of the account specification.                                *)

\* The number of calls made on one account
MaxOps == 3

Symbols == {"X", "Y"}
\* The <<symbol, price>> pairs buy and sell are called with; a price of 0 is invalid
Quotes == {<<"X", R(0)>>, <<"X", R(1)>>, <<"X", R(2)>>, <<"Y", R(1)>>}
InitialCashes == {R(150), R(209)}
TradeCosts == {DefaultTradeCost, ZeroTradeCost, MinOnlyTradeCost}

\* buy's sizing arguments: <<shares, amount, allow_partial>>
BuySizes ==
    {<<None, None, TRUE>>,
     <<Some(0), None, TRUE>>, <<Some(199), None, TRUE>>,
     <<Some(300), None, FALSE>>,
     <<None, Some(R(1)), TRUE>>, <<None, Some(R(50)), TRUE>>, <<None, Some(R(50)), FALSE>>,
     <<None, Some(R(100)), TRUE>>}

\* sell's sizing arguments: <<shares, amount, percent>>
SellSizes ==
    {<<None, None, None>>,
     <<Some(500), None, None>>, <<Some(199), None, None>>,
     <<None, Some(R(50)), None>>,
     <<None, None, Some(Zero)>>, <<None, None, Some(<<1, 2>>)>>, <<None, None, Some(<<3, 2>>)>>}

\* update_portfolio_value's price_dict: a price for some of the symbols
PriceOf == [s \in Symbols |-> IF s = "X" THEN R(2) ELSE R(1)]
PriceDicts == {[s \in D |-> PriceOf[s]] : D \in {{}, {"X"}, {"X", "Y"}}}

NoCall == [op |-> "", prev |-> "", symbol |-> "", price |-> Zero, shares |-> None, amount |-> None,
           percent |-> None, allow_partial |-> TRUE, price_dict |-> EmptyDict]
NoRet == [kind |-> "", error |-> "", record |-> <<>>]
Idle == [status |-> "idle", strategy |-> "", symbol |-> "", position_size |-> None,
         position_pct |-> None, n |-> 0, i |-> 0, start_cash |-> Zero, buy_price |-> Zero,
         df |-> <<>>, todo |-> <<>>, results |-> <<>>]

\* Performance.__init__: stats = {}, trade_stats = {}; entry names the entry point
\* called last
NoPerformance == [entry |-> "", stats |-> EmptyDict, paired_trades |-> <<>>]

\* TradeManager.__init__, lines 201-206
Init ==
    /\ initial_cash \in InitialCashes
    /\ trade_cost \in TradeCosts
    /\ cash = initial_cash
    /\ positions = EmptyDict
    /\ trade_history = <<>>
    /\ daily_portfolio_value = <<>>
    /\ call = NoCall
    /\ ret = NoRet
    /\ clock = 0
    /\ run = Idle
    /\ performance = NoPerformance

Commit(r) ==
    /\ cash' = r.cash
    /\ positions' = r.positions
    /\ trade_history' = r.trade_history
    /\ ret' = r.ret

Buy ==
    /\ clock < MaxOps
    /\ \E q \in Quotes, size \in BuySizes :
        /\ call' = [NoCall EXCEPT !.prev = call.op, !.op = "buy", !.symbol = q[1], !.price = q[2],
                                  !.shares = size[1], !.amount = size[2],
                                  !.allow_partial = size[3]]
        /\ \E r \in {buy(Account, trade_cost, clock + 1, q[1], q[2], size[1], size[2],
                        size[3])} : Commit(r)
    /\ clock' = clock + 1
    /\ UNCHANGED <<performance, initial_cash, trade_cost, daily_portfolio_value, run>>

Sell ==
    /\ clock < MaxOps
    /\ \E q \in Quotes, size \in SellSizes :
        /\ call' = [NoCall EXCEPT !.prev = call.op, !.op = "sell", !.symbol = q[1], !.price = q[2],
                                  !.shares = size[1], !.amount = size[2],
                                  !.percent = size[3]]
        /\ \E r \in {sell(Account, trade_cost, clock + 1, q[1], q[2], size[1], size[2],
                         size[3])} : Commit(r)
    /\ clock' = clock + 1
    /\ UNCHANGED <<performance, initial_cash, trade_cost, daily_portfolio_value, run>>

UpdatePortfolioValue ==
    /\ clock < MaxOps
    /\ \E price_dict \in PriceDicts :
        /\ call' = [NoCall EXCEPT !.prev = call.op, !.op = "update_portfolio_value",
                                  !.price_dict = price_dict]
        /\ daily_portfolio_value' =
              Append(daily_portfolio_value, snapshot(clock + 1, cash, positions, price_dict))
    /\ ret' = NoRet
    /\ clock' = clock + 1
    /\ UNCHANGED <<performance, initial_cash, trade_cost, cash, positions, trade_history, run>>

\* A mutant of Reset: the INIT record is appended to the history kept as it was.
Reset_keeps_history ==
    /\ clock < MaxOps
    /\ call' = [NoCall EXCEPT !.prev = call.op, !.op = "reset"]
    /\ cash' = initial_cash
    /\ positions' = EmptyDict
    /\ trade_history' = Append(trade_history, init_record(clock + 1, initial_cash))
    /\ daily_portfolio_value' = <<>>
    /\ ret' = NoRet
    /\ clock' = clock + 1
    /\ UNCHANGED <<performance, initial_cash, trade_cost, run>>

Reset ==
    /\ clock < MaxOps
    /\ call' = [NoCall EXCEPT !.prev = call.op, !.op = "reset"]
    /\ cash' = initial_cash
    /\ positions' = EmptyDict
    /\ trade_history' = <<init_record(clock + 1, initial_cash)>>
    /\ daily_portfolio_value' = <<>>
    /\ ret' = NoRet
    /\ clock' = clock + 1
    /\ UNCHANGED <<performance, initial_cash, trade_cost, run>>

Next == Buy \/ Sell \/ UpdatePortfolioValue \/ Reset

Spec == Init /\ [][Next]_vars

---------------------------------------------------------------------------
(* The per-bar loops: SignalStrategy.run, MultiSignalStrategy.run and       *)
(* CustomStrategy.run.  A bar is its close price and its signal; its        *)
(* timestamp is its index in the data.                                      *)

\* The number of bars of a run
MaxBars == 3

Closes == {R(0), R(1), R(2)}
Signals == {-1, 0, 1}
\* The weighted sums MultiSignalStrategy.generate_signals thresholds
Scores == {R(-1), <<1, 2>>, R(1)}
Strategies == {"SignalStrategy", "MultiSignalStrategy", "CustomStrategy"}
\* <<position_size, position_pct>>
Sizings == {<<Some(100), None>>, <<None, Some(<<1, 2>>)>>, <<None, None>>}

\* CustomStrategy.__init__: stop_loss_pct=0.05, take_profit_pct=0.1
stop_loss_pct == <<1, 20>>
take_profit_pct == <<1, 10>>

\* MultiSignalStrategy.generate_signals, lines 211-216
signal_threshold(score) ==
    IF RLt(<<1, 2>>, score) THEN 1 ELSE IF RLt(score, <<-1, 2>>) THEN -1 ELSE 0

\* TradeManager.get_position
get_position(pos, symbol) == IF symbol \in DOMAIN pos THEN pos[symbol] ELSE Position(symbol)

\* No call is made on the account
NoTrade(st) == [ret |-> NoRet] @@ st

\* A mutant of signal_kind: an exit signal is not acted on.
signal_kind_ignores_exit(position, signal) ==
    IF signal = 1 THEN "BUY" ELSE "None"

\* The trade a bar of SignalStrategy.run / MultiSignalStrategy.run attempts
\* (strategy.py lines 116, 142-144)
signal_kind(position, signal) ==
    IF signal = 1 THEN "BUY"
    ELSE IF signal = -1 /\ position.shares > 0 THEN "SELL"
    ELSE "None"

\* The trade a bar of CustomStrategy.run attempts: the stop-loss and take-profit
\* checks come before the signal (lines 217-228, 245, 262, 289)
custom_kind(position, buy_price, close, signal) ==
    IF /\ position.shares > 0
       /\ RLt(Zero, buy_price)
       /\ RLe(stop_loss_pct, RDiv(RSub(buy_price, close), buy_price))
    THEN "SELL_STOP_LOSS"
    ELSE IF /\ position.shares > 0
            /\ RLt(Zero, buy_price)
            /\ RLe(take_profit_pct, RDiv(RSub(close, buy_price), buy_price))
    THEN "SELL_TAKE_PROFIT"
    ELSE IF signal = 1 /\ position.shares = 0 THEN "BUY"
    ELSE IF signal = -1 /\ position.shares > 0 THEN "SELL"
    ELSE "None"

\* The amount argument of the loops' buy call: none with a position_size, else
\* cash * position_pct, else cash * 0.9
loop_amount(cash_, r) ==
    IF r.position_size # None THEN None
    ELSE IF r.position_pct # None THEN Some(RMul(cash_, Val(r.position_pct)))
    ELSE Some(RMul(cash_, <<9, 10>>))

\* The call a bar makes on the account: buy sized by the run's sizing, or sell of the
\* whole held position, or none
loop_trade(st, tc, r, close, position, kind) ==
    IF kind = "None" THEN NoTrade(st)
    ELSE IF kind = "BUY"
    THEN buy(st, tc, r.i + 1, r.symbol, close, r.position_size, loop_amount(st.cash, r), TRUE)
    ELSE sell(st, tc, r.i + 1, r.symbol, close, Some(position.shares), None, None)

\* The df row of a bar: position and portfolio_value as read before the trade;
\* trade_type, shares and cash written only when a record came back, the cash column
\* holding the cash read before the loop otherwise
row_of(st, r, close, signal, position, kind, t) ==
    [date |-> r.i + 1, close |-> close, signal |-> signal,
     trade_type |-> IF t.ret.kind = "record" THEN kind ELSE "None",
     shares |-> IF t.ret.kind = "record" THEN t.ret.record[1].shares ELSE 0,
     cash |-> IF t.ret.kind = "record" THEN t.ret.record[1].cash_balance ELSE r.start_cash,
     position |-> position.shares,
     portfolio_value |-> IF position.shares > 0
                         THEN RAdd(st.cash, market_value(position, close)) ELSE st.cash]

\* CustomStrategy.run's buy_price after a bar (lines 240, 257, 287, 302)
custom_buy_price(r, close, kind, t) ==
    IF r.strategy # "CustomStrategy" \/ t.ret.kind # "record" THEN r.buy_price
    ELSE IF kind = "BUY" THEN close
    ELSE Zero

\* CustomStrategy.run, lines 242 and 259: the continue after a stop-loss or
\* take-profit check has fired
bar_continues(kind) == kind \in {"SELL_STOP_LOSS", "SELL_TAKE_PROFIT"}

\* The end of a loop iteration: an exception of the call leaves the loop; otherwise
\* the row is written and, unless the iteration ended in continue, the snapshot of
\* {symbol: close} is appended
bar_done(snaps, r, close, row, kind, t) ==
    IF t.ret.kind = "raise"
    THEN [cash |-> t.cash, positions |-> t.positions, trade_history |-> t.trade_history,
          daily_portfolio_value |-> snaps,
          run |-> [r EXCEPT !.status = "raised", !.df = Append(@, row)]]
    ELSE [cash |-> t.cash, positions |-> t.positions, trade_history |-> t.trade_history,
          daily_portfolio_value |->
              IF bar_continues(kind) THEN snaps
              ELSE Append(snaps, snapshot(r.i + 1, t.cash, t.positions,
                                          [s \in {r.symbol} |-> close])),
          run |-> [r EXCEPT !.i = @ + 1, !.df = Append(@, row),
                            !.buy_price = custom_buy_price(r, close, kind, t)]]

\* run, up to the loop: the optional reset and the df columns; data holds n bars
StartRun ==
    /\ run.status = "idle"
    /\ \E strategy \in Strategies, symbol \in {"X"}, sizing \in Sizings, n \in 1..MaxBars,
          with_initial_cash \in BOOLEAN :
        /\ IF with_initial_cash
           THEN /\ cash' = initial_cash
                /\ positions' = EmptyDict
                /\ trade_history' = <<init_record(0, initial_cash)>>
                /\ daily_portfolio_value' = <<>>
           ELSE UNCHANGED <<cash, positions, trade_history, daily_portfolio_value>>
        /\ run' = [Idle EXCEPT !.status = "running", !.strategy = strategy,
                               !.symbol = symbol, !.position_size = sizing[1],
                               !.position_pct = sizing[2], !.n = n,
                               !.start_cash = cash']
    /\ UNCHANGED <<performance, initial_cash, trade_cost, call, ret, clock>>

\* One loop iteration on a bar <<close, signal>> whose attempted trade is kind
Bar(close, signal, position, kind) ==
    \E t \in {loop_trade(Account, trade_cost, run, close, position, kind)} :
    \E row \in {row_of(Account, run, close, signal, position, kind, t)} :
    \E out \in {bar_done(daily_portfolio_value, run, close, row, kind, t)} :
        /\ cash' = out.cash
        /\ positions' = out.positions
        /\ trade_history' = out.trade_history
        /\ daily_portfolio_value' = out.daily_portfolio_value
        /\ run' = out.run
        /\ UNCHANGED <<performance, initial_cash, trade_cost, call, ret, clock>>

SignalBar ==
    /\ run.status = "running"
    /\ run.strategy = "SignalStrategy"
    /\ run.i < run.n
    /\ \E close \in Closes, signal \in Signals :
       \E position \in {get_position(positions, run.symbol)} :
           Bar(close, signal, position, signal_kind(position, signal))

MultiSignalBar ==
    /\ run.status = "running"
    /\ run.strategy = "MultiSignalStrategy"
    /\ run.i < run.n
    /\ \E close \in Closes, score \in Scores :
       \E position \in {get_position(positions, run.symbol)} :
           Bar(close, signal_threshold(score), position,
               signal_kind(position, signal_threshold(score)))

CustomBar ==
    /\ run.status = "running"
    /\ run.strategy = "CustomStrategy"
    /\ run.i < run.n
    /\ \E close \in Closes, signal \in Signals :
       \E position \in {get_position(positions, run.symbol)} :
           Bar(close, signal, position, custom_kind(position, run.buy_price, close, signal))

\* return df
ReturnDf ==
    /\ run.status = "running"
    /\ run.i = run.n
    /\ run' = [run EXCEPT !.status = "done"]
    /\ UNCHANGED <<performance, initial_cash, trade_cost, cash, positions, trade_history,
                   daily_portfolio_value, call, ret, clock>>


---------------------------------------------------------------------------
(* PortfolioStrategy.run: the strategies of a dict of symbols are run one    *)
(* after the other on one shared account, each over its own symbol's bars.   *)

\* The number of bars of each symbol's data in a portfolio run
MaxSymbolBars == 2

\* The keys of the strategies dict, in its order
StrategyDicts == {<<"X">>, <<"X", "Y">>}

\* PortfolioStrategy.run up to the first strategy.run: the optional reset, the default
\* position_pct of 1 / len(strategies), and the first symbol's run up to its loop
StartPortfolio ==
    /\ run.status = "idle"
    /\ \E strategies \in StrategyDicts, n \in 1..MaxSymbolBars, with_initial_cash \in BOOLEAN :
        /\ IF with_initial_cash
           THEN /\ cash' = initial_cash
                /\ positions' = EmptyDict
                /\ trade_history' = <<init_record(0, initial_cash)>>
                /\ daily_portfolio_value' = <<>>
           ELSE UNCHANGED <<cash, positions, trade_history, daily_portfolio_value>>
        /\ run' = [Idle EXCEPT !.status = "running", !.strategy = "SignalStrategy",
                               !.symbol = Head(strategies), !.todo = Tail(strategies),
                               !.position_pct = Some(RDiv(One, R(Len(strategies)))),
                               !.n = n, !.start_cash = cash']
    /\ UNCHANGED <<performance, initial_cash, trade_cost, call, ret, clock>>

\* results[symbol] = result_df, and the next symbol's strategy.run up to its loop, with
\* the same position_pct and no reset
NextSymbol ==
    /\ run.status = "running"
    /\ run.i = run.n
    /\ run.todo # <<>>
    /\ \E n \in 1..MaxSymbolBars :
          run' = [run EXCEPT !.symbol = Head(run.todo), !.todo = Tail(run.todo),
                             !.results = Append(@, run.df), !.df = <<>>,
                             !.n = n, !.i = 0, !.start_cash = cash]
    /\ UNCHANGED <<performance, initial_cash, trade_cost, cash, positions, trade_history,
                   daily_portfolio_value, call, ret, clock>>

\* return results
ReturnResults ==
    /\ run.status = "running"
    /\ run.i = run.n
    /\ run.todo = <<>>
    /\ run' = [run EXCEPT !.status = "done", !.results = Append(@, run.df)]
    /\ UNCHANGED <<performance, initial_cash, trade_cost, cash, positions, trade_history,
                   daily_portfolio_value, call, ret, clock>>

NextPortfolio == StartPortfolio \/ SignalBar \/ NextSymbol \/ ReturnResults

SpecPortfolio == Init /\ [][NextPortfolio]_vars

---------------------------------------------------------------------------
(* TradeCost.calculate on its own: a cost configuration is constructed and  *)
(* calculate is called on it with a price and a share count.                *)

\* A cost configuration whose commission is above its minimum on a lot
HighRateTradeCost ==
    [commission_rate |-> <<1, 10>>, min_commission |-> One, slippage_rate |-> <<1, 100>>]

CostConfigs == {DefaultTradeCost, ZeroTradeCost, HighRateTradeCost, MinOnlyTradeCost}
CostPrices == {<<1, 2>>, R(1), R(2), R(100)}
CostShares == {0, 1, 100, 200}

InitCost ==
    /\ initial_cash \in InitialCashes
    /\ trade_cost \in CostConfigs
    /\ cash = initial_cash
    /\ positions = EmptyDict
    /\ trade_history = <<>>
    /\ daily_portfolio_value = <<>>
    /\ call = NoCall
    /\ ret = NoRet
    /\ clock = 0
    /\ run = Idle
    /\ performance = NoPerformance

Calculate ==
    /\ \E price \in CostPrices, shares \in CostShares :
        /\ call' = [NoCall EXCEPT !.prev = call.op, !.op = "calculate", !.price = price, !.shares = Some(shares)]
        /\ ret' = [kind |-> "tuple", error |-> "",
                   record |-> <<calculate(trade_cost, price, shares)>>]
    /\ UNCHANGED <<performance, initial_cash, trade_cost, cash, positions, trade_history,
                   daily_portfolio_value, clock, run>>

NextCost == Calculate

SpecCost == InitCost /\ [][NextCost]_vars

---------------------------------------------------------------------------
(* Performance: the analytics over an account's trade_history.  A trade is  *)
(* the TradeRecord object at a position of trade_history; a pair <<b, s>>   *)
(* holds the positions of its BUY and of its SELL.                          *)

\* float('inf')
Inf == <<1, 0>>
\* A float that is no rational: a root taken by ** or np.sqrt
Irrational == <<0, 0>>

\* The trades of a history, in order
all_trades(th) == [i \in 1..Len(th) |-> i]

\* [t for t in trades if t.trade_type == trade_type]
RECURSIVE select_trades(_, _, _)
select_trades(th, trades, trade_type) ==
    IF trades = <<>> THEN <<>>
    ELSE IF th[Head(trades)].trade_type = trade_type
         THEN <<Head(trades)>> \o select_trades(th, Tail(trades), trade_type)
         ELSE select_trades(th, Tail(trades), trade_type)

\* A mutant of pair_trades: a SELL that is not later than the current BUY consumes it.
RECURSIVE pair_trades_skip_consumes_buy(_, _, _, _, _, _)
pair_trades_skip_consumes_buy(th, buy_trades, sell_trades, buy_index, sell_index, paired_trades) ==
    IF buy_index <= Len(buy_trades) /\ sell_index <= Len(sell_trades)
    THEN IF th[sell_trades[sell_index]].date > th[buy_trades[buy_index]].date
         THEN pair_trades_skip_consumes_buy(th, buy_trades, sell_trades, buy_index + 1, sell_index + 1, Append(paired_trades, <<buy_trades[buy_index], sell_trades[sell_index]>>))
         ELSE pair_trades_skip_consumes_buy(th, buy_trades, sell_trades, buy_index + 1, sell_index + 1, paired_trades)
    ELSE paired_trades

\* The pairing loop (performance.py lines 86-97), indices counted from 1
RECURSIVE pair_trades(_, _, _, _, _, _)
pair_trades(th, buy_trades, sell_trades, buy_index, sell_index, paired_trades) ==
    IF buy_index <= Len(buy_trades) /\ sell_index <= Len(sell_trades)
    THEN IF th[sell_trades[sell_index]].date > th[buy_trades[buy_index]].date
         THEN pair_trades(th, buy_trades, sell_trades, buy_index + 1, sell_index + 1, Append(paired_trades, <<buy_trades[buy_index], sell_trades[sell_index]>>))
         ELSE pair_trades(th, buy_trades, sell_trades, buy_index, sell_index + 1, paired_trades)
    ELSE paired_trades

\* The pairs of a list of trades: its BUYs against its SELLs
pairs_of(th, trades) ==
    pair_trades(th, select_trades(th, trades, "BUY"), select_trades(th, trades, "SELL"),
                1, 1, <<>>)

\* The keys of trades_by_symbol in insertion order (lines 236-241)
RECURSIVE symbols_in_order(_, _, _)
symbols_in_order(th, i, seen) ==
    IF i > Len(th) THEN seen
    ELSE IF th[i].symbol # "" /\ ~(\E k \in 1..Len(seen) : seen[k] = th[i].symbol)
         THEN symbols_in_order(th, i + 1, Append(seen, th[i].symbol))
         ELSE symbols_in_order(th, i + 1, seen)

\* trades_by_symbol[symbol]
RECURSIVE trades_of_symbol(_, _, _)
trades_of_symbol(th, trades, symbol) ==
    IF trades = <<>> THEN <<>>
    ELSE IF th[Head(trades)].symbol = symbol
         THEN <<Head(trades)>> \o trades_of_symbol(th, Tail(trades), symbol)
         ELSE trades_of_symbol(th, Tail(trades), symbol)

\* The pairing of calculate_portfolio: symbol by symbol (lines 244-263)
RECURSIVE pairs_by_symbol(_, _)
pairs_by_symbol(th, symbols) ==
    IF symbols = <<>> THEN <<>>
    ELSE pairs_of(th, trades_of_symbol(th, all_trades(th), Head(symbols)))
             \o pairs_by_symbol(th, Tail(symbols))

\* profit of a pair (lines 112-114)
profit_of(th, pair) ==
    LET buy_trade == th[pair[1]]
        sell_trade == th[pair[2]]
        buy_value == RAdd(RMul(buy_trade.price, R(buy_trade.shares)), buy_trade.total_cost)
        sell_value == RSub(RMul(sell_trade.price, R(sell_trade.shares)), sell_trade.total_cost)
    IN  RSub(sell_value, buy_value)

\* The counters before the loop over the pairs (lines 101-108)
NoTally ==
    [winning_trades |-> 0, losing_trades |-> 0, break_even_trades |-> 0,
     total_profit |-> Zero, total_loss |-> Zero, max_profit |-> Zero, max_loss |-> Zero,
     total_holding_days |-> 0]

\* One iteration of the loop over the pairs (lines 110-130)
tally_pair(th, pair, acc) ==
    LET profit == profit_of(th, pair)
        holding_days == th[pair[2]].date - th[pair[1]].date
        counted ==
            IF RLt(Zero, profit)
            THEN [acc EXCEPT !.winning_trades = @ + 1, !.total_profit = RAdd(@, profit),
                             !.max_profit = RMax(@, profit)]
            ELSE IF RLt(profit, Zero)
            THEN [acc EXCEPT !.losing_trades = @ + 1, !.total_loss = RAdd(@, RNeg(profit)),
                             !.max_loss = RMax(@, RNeg(profit))]
            ELSE [acc EXCEPT !.break_even_trades = @ + 1]
    IN  [counted EXCEPT !.total_holding_days = @ + holding_days]

RECURSIVE tally(_, _, _)
tally(th, paired_trades, acc) ==
    IF paired_trades = <<>> THEN acc
    ELSE tally(th, Tail(paired_trades), tally_pair(th, Head(paired_trades), acc))

\* A mutant of win_rate_of: the rate is left a fraction of 1.
win_rate_as_fraction(winning_trades, total_trades) ==
    IF total_trades > 0 THEN RDiv(R(winning_trades), R(total_trades)) ELSE Zero

\* win_rate (line 133)
win_rate_of(winning_trades, total_trades) ==
    IF total_trades > 0 THEN RMul(RDiv(R(winning_trades), R(total_trades)), R(100)) ELSE Zero

\* The trade statistics of the pairs (lines 100-141)
trade_statistics(th, paired_trades) ==
    LET t == tally(th, paired_trades, NoTally)
        total_trades == Len(paired_trades)
    IN  [total_trades |-> total_trades,
         winning_trades |-> t.winning_trades,
         losing_trades |-> t.losing_trades,
         break_even_trades |-> t.break_even_trades,
         win_rate |-> win_rate_of(t.winning_trades, total_trades),
         profit_factor |-> IF RLt(Zero, t.total_loss) THEN RDiv(t.total_profit, t.total_loss)
                           ELSE IF RLt(Zero, t.total_profit) THEN Inf ELSE Zero,
         avg_profit |-> IF t.winning_trades > 0
                        THEN RDiv(t.total_profit, R(t.winning_trades)) ELSE Zero,
         avg_loss |-> IF t.losing_trades > 0
                      THEN RDiv(t.total_loss, R(t.losing_trades)) ELSE Zero,
         max_profit |-> t.max_profit,
         max_loss |-> t.max_loss,
         avg_holding_days |-> IF total_trades > 0
                              THEN RDiv(R(t.total_holding_days), R(total_trades)) ELSE Zero]

\* annual_return (line 63): a root unless the ratio is 1 or the span is one year
annual_return_of(ratio, days) ==
    IF days > 0
    THEN IF ratio = One THEN Zero
         ELSE IF days = 365 THEN RMul(RSub(ratio, One), R(100))
         ELSE Irrational
    ELSE Zero

\* max_drawdown (lines 69-71): the least of (value - peak) / peak * 100
RECURSIVE max_drawdown_of(_, _, _, _)
max_drawdown_of(series, i, peak, least) ==
    IF i > Len(series) THEN least
    ELSE LET peak1 == RMax(peak, series[i].value)
             drawdown == RMul(RDiv(RSub(series[i].value, peak1), peak1), R(100))
         IN  max_drawdown_of(series, i + 1, peak1,
                             IF RLt(drawdown, least) THEN drawdown ELSE least)

\* daily_return (line 66) without its first, undefined entry
daily_returns_of(series) ==
    [i \in 1..(Len(series) - 1) |->
        RDiv(RSub(series[i + 1].value, series[i].value), series[i].value)]

\* sharpe_ratio (line 75): 0 unless the returns have a positive standard deviation
sharpe_ratio_of(series) ==
    LET daily_returns == daily_returns_of(series)
    IN  IF /\ Len(daily_returns) >= 2
           /\ \E i \in 1..Len(daily_returns) : daily_returns[i] # daily_returns[1]
        THEN Irrational ELSE Zero

\* The statistics of a series of portfolio values (lines 53-75)
value_statistics(initial, series) ==
    LET final_portfolio_value == series[Len(series)].value
        ratio == RDiv(final_portfolio_value, initial)
    IN  [initial_cash |-> initial,
         final_portfolio_value |-> final_portfolio_value,
         total_return |-> RMul(RSub(ratio, One), R(100)),
         annual_return |-> annual_return_of(ratio, series[Len(series)].date - series[1].date),
         max_drawdown |-> max_drawdown_of(series, 1, series[1].value, Zero),
         sharpe_ratio |-> sharpe_ratio_of(series)]

\* The statistics of the early return (lines 32-49)
zero_stats(initial, cash_) ==
    [initial_cash |-> initial, final_cash |-> cash_, total_return |-> Zero,
     annual_return |-> Zero, max_drawdown |-> Zero, sharpe_ratio |-> Zero,
     win_rate |-> Zero, profit_factor |-> Zero, total_trades |-> 0, winning_trades |-> 0,
     losing_trades |-> 0, avg_profit |-> Zero, avg_loss |-> Zero, max_profit |-> Zero,
     max_loss |-> Zero, avg_holding_days |-> Zero]

\* The pairing of calculate: all BUYs against all SELLs (lines 78-97)
calculate_pairs(th) == pairs_of(th, all_trades(th))

\* Performance.calculate without the early return of lines 31-50
performance_calculate_no_early_return(perf, initial, cash_, th, result_df) ==
    [entry |-> "calculate",
     stats |-> value_statistics(initial, result_df)
                   @@ trade_statistics(th, calculate_pairs(th)),
     paired_trades |-> calculate_pairs(th)]

\* Performance.calculate(trade_manager, result_df); result_df as its rows of
\* index and portfolio_value
performance_calculate(perf, initial, cash_, th, result_df) ==
    IF Len(th) <= 1
    THEN [perf EXCEPT !.entry = "calculate", !.stats = zero_stats(initial, cash_)]
    ELSE [entry |-> "calculate",
          stats |-> value_statistics(initial, result_df)
                        @@ trade_statistics(th, calculate_pairs(th)),
          paired_trades |-> calculate_pairs(th)]

\* portfolio_value_df: date and total_value of the snapshots
portfolio_value_series(snaps) ==
    [i \in 1..Len(snaps) |-> [date |-> snaps[i].date, value |-> snaps[i].total_value]]

\* Performance.calculate_portfolio(trade_manager, results_dict)
performance_calculate_portfolio(perf, initial, cash_, th, snaps) ==
    IF snaps = <<>>
    THEN [perf EXCEPT !.entry = "calculate_portfolio", !.stats = zero_stats(initial, cash_)]
    ELSE LET paired_trades == pairs_by_symbol(th, symbols_in_order(th, 1, <<>>))
         IN  [entry |-> "calculate_portfolio",
              stats |-> value_statistics(initial, portfolio_value_series(snaps))
                            @@ trade_statistics(th, paired_trades),
              paired_trades |-> paired_trades]

\* The inputs of the analytics specification: trades made with dates of the caller's
\* choice on an account with cash for several lots

\* The number of calls made on the account before the analytics
MaxTrades == 3

PerfInitialCash == R(1000)
PerfQuotes == {<<"X", R(1)>>, <<"X", R(2)>>, <<"X", R(4)>>, <<"Y", R(1)>>}
PerfDates == {0, 10}
PerfTradeCosts == {DefaultTradeCost, ZeroTradeCost}
\* result_df: the rows of a run, as index and portfolio_value
ResultDfs ==
    {<<[date |-> 0, value |-> R(1000)]>>,
     <<[date |-> 0, value |-> R(1000)], [date |-> 10, value |-> R(1100)]>>}

\* An account constructed, and reset or not, and a Performance constructed
InitPerf ==
    /\ initial_cash = PerfInitialCash
    /\ trade_cost \in PerfTradeCosts
    /\ cash = initial_cash
    /\ positions = EmptyDict
    /\ trade_history \in {<<>>, <<init_record(0, initial_cash)>>}
    /\ daily_portfolio_value = <<>>
    /\ call = NoCall
    /\ ret = NoRet
    /\ clock = 0
    /\ run = Idle
    /\ performance = NoPerformance

\* buy(date, symbol, price, shares=200)
DatedBuy ==
    /\ clock < MaxTrades
    /\ performance.entry = ""
    /\ \E q \in PerfQuotes, date \in PerfDates :
        /\ call' = [NoCall EXCEPT !.prev = call.op, !.op = "buy", !.symbol = q[1],
                                  !.price = q[2], !.shares = Some(200)]
        /\ \E r \in {buy(Account, trade_cost, date, q[1], q[2], Some(200), None, TRUE)} :
              Commit(r)
    /\ clock' = clock + 1
    /\ UNCHANGED <<performance, initial_cash, trade_cost, daily_portfolio_value, run>>

\* sell(date, symbol, price, shares=100)
DatedSell ==
    /\ clock < MaxTrades
    /\ performance.entry = ""
    /\ \E q \in PerfQuotes, date \in PerfDates :
        /\ call' = [NoCall EXCEPT !.prev = call.op, !.op = "sell", !.symbol = q[1],
                                  !.price = q[2], !.shares = Some(100)]
        /\ \E r \in {sell(Account, trade_cost, date, q[1], q[2], Some(100), None, None)} :
              Commit(r)
    /\ clock' = clock + 1
    /\ UNCHANGED <<performance, initial_cash, trade_cost, daily_portfolio_value, run>>

\* update_portfolio_value(date, price_dict)
DatedSnapshot ==
    /\ clock < MaxTrades
    /\ performance.entry = ""
    /\ \E date \in PerfDates :
        /\ call' = [NoCall EXCEPT !.prev = call.op, !.op = "update_portfolio_value",
                                  !.price_dict = PriceOf]
        /\ daily_portfolio_value' =
              Append(daily_portfolio_value, snapshot(date, cash, positions, PriceOf))
    /\ ret' = NoRet
    /\ clock' = clock + 1
    /\ UNCHANGED <<performance, initial_cash, trade_cost, cash, positions, trade_history, run>>

\* performance.calculate(trade_manager, result_df)
PerformanceCalculate ==
    /\ performance.entry = ""
    /\ \E result_df \in ResultDfs :
          performance' = performance_calculate(performance, initial_cash, cash,
                                               trade_history, result_df)
    /\ UNCHANGED <<initial_cash, trade_cost, cash, positions, trade_history,
                   daily_portfolio_value, call, ret, clock, run>>

\* performance.calculate_portfolio(trade_manager, results_dict)
PerformanceCalculatePortfolio ==
    /\ performance.entry = ""
    /\ performance' = performance_calculate_portfolio(performance, initial_cash, cash,
                                                      trade_history, daily_portfolio_value)
    /\ UNCHANGED <<initial_cash, trade_cost, cash, positions, trade_history,
                   daily_portfolio_value, call, ret, clock, run>>

NextPerf ==
    DatedBuy \/ DatedSell \/ DatedSnapshot \/ PerformanceCalculate
        \/ PerformanceCalculatePortfolio

SpecPerf == InitPerf /\ [][NextPerf]_vars

---------------------------------------------------------------------------
(* Backtest.run: a strategy's run on the account, then Performance.calculate *)
(* on the account and the df the run returned.                               *)

\* result_df as Performance.calculate reads it: index and portfolio_value of the rows
result_series(df) == [k \in 1..Len(df) |-> [date |-> df[k].date, value |-> df[k].portfolio_value]]

\* Backtest.run, line 66: self.performance.calculate(self.trade_manager, result)
BacktestCalculate ==
    /\ run.status = "done"
    /\ performance.entry = ""
    /\ performance' = performance_calculate(performance, initial_cash, cash, trade_history,
                                            result_series(run.df))
    /\ UNCHANGED <<initial_cash, trade_cost, cash, positions, trade_history,
                   daily_portfolio_value, call, ret, clock, run>>

NextRun ==
    StartRun \/ SignalBar \/ MultiSignalBar \/ CustomBar \/ ReturnDf \/ BacktestCalculate

SpecRun == Init /\ [][NextRun]_vars

---------------------------------------------------------------------------
(* Properties of the account under Spec.                                   *)

LastRecord == ret.record[1]

\* C1: after any sequence of buy and sell calls the account's cash is >= 0.
C1_CashNonNegative == RLe(Zero, cash)

\* C2: a buy or sell call that returns no trade or raises leaves cash, positions (and
\* its key set), trade_history and the valuation snapshots as they were; a call that
\* returns a record has appended exactly that record to trade_history.
C2_AllOrNothing ==
    [][call'.op \in {"buy", "sell"} =>
        /\ ret'.kind \in {"None", "raise"} =>
              UNCHANGED <<cash, positions, trade_history, daily_portfolio_value>>
        /\ ret'.kind = "record" =>
              trade_history' = Append(trade_history, ret'.record[1])]_vars

\* C2 witness: a buy of a symbol with no position entry has been rejected.
C2_Witness_RejectedBuy ==
    /\ call.op = "buy"
    /\ ret.kind = "None"
    /\ call.symbol \notin DOMAIN positions

\* C3: every Position has shares >= 0, and a Position with no shares has avg_price 0
\* and cost_basis 0.
C3_PositionInvariant ==
    \A s \in DOMAIN positions :
        /\ positions[s].shares >= 0
        /\ positions[s].shares = 0 =>
              positions[s].avg_price = Zero /\ positions[s].cost_basis = Zero

\* C3 witness: a sell has just emptied a position.
C3_Witness_SoldOut ==
    /\ call.op = "sell"
    /\ ret.kind = "record"
    /\ LastRecord.shares > 0
    /\ positions[call.symbol].shares = 0

\* A buy sized by an amount that covers one share but not one lot
AmountBelowOneLot(c) ==
    /\ c.op = "buy"
    /\ c.shares = None
    /\ c.amount # None
    /\ RLt(Zero, c.price)
    /\ RLe(c.price, Val(c.amount))
    /\ RLt(Val(c.amount), RMul(R(LotSize), c.price))

\* C4: every buy sized by an amount with price <= amount < 100*price fills exactly
\* 100 shares and spends at most the cash held before the call.
C4_OneLotWithinCash ==
    [][AmountBelowOneLot(call') =>
        /\ ret'.kind = "record"
        /\ ret'.record[1].shares = LotSize
        /\ RLe(RNeg(ret'.record[1].cash_change), cash)]_vars

\* A buy sized by an amount that covers at least one share
AmountBuy(c) ==
    /\ c.op = "buy"
    /\ c.shares = None
    /\ c.amount # None
    /\ RLt(Zero, c.price)
    /\ RLe(c.price, Val(c.amount))

\* floor(amount/price/100)*100 when that is positive, else 100
LotsOrOneLot(amount, price) ==
    LET lots == Trunc(RDiv(RDiv(amount, price), R(100)))
    IN  IF lots > 0 THEN lots * 100 ELSE 100

\* price*shares + total_cost
SpendOf(tc, price, shares) == RAdd(RMul(price, R(shares)), calculate(tc, price, shares).total_cost)

\* A buy of c filled n shares: a record of n shares came back, cash went down by
\* price*n + total_cost and the position grew by n shares.
FilledExactly(c, n) ==
    /\ ret'.kind = "record"
    /\ ret'.record[1].shares = n
    /\ cash' = RSub(cash, SpendOf(trade_cost, c.price, n))
    /\ positions'[c.symbol].shares = get_position(positions, c.symbol).shares + n

\* The scenario of C12: an account with cash 100000 and the default costs buys X at
\* price 50 with amount 10000
Scenario_BuyByAmount ==
    buy([cash |-> R(100000), positions |-> EmptyDict, trade_history |-> <<>>],
        DefaultTradeCost, 1, "X", R(50), None, Some(R(10000)), TRUE)

\* C12: a buy sized by amount whose spend the cash covers fills
\* floor(amount/price/100)*100 shares when that is positive and 100 when it is zero
\* but amount/price >= 1; cash decreases by price*shares + total_cost and the position
\* grows by the filled shares.
C12_Original_AmountFill ==
    [][(/\ AmountBuy(call')
        /\ RLe(SpendOf(trade_cost, call'.price,
                       LotsOrOneLot(Val(call'.amount), call'.price)), cash)) =>
        FilledExactly(call', LotsOrOneLot(Val(call'.amount), call'.price))]_vars

\* C12 amended: the same for a buy made with allow_partial true (its default); the
\* scenario fills 200 shares with commission 5.
C12_AmountFillWhenPartialAllowed ==
    [][/\ Scenario_BuyByAmount.ret.record[1].shares = 200
       /\ Scenario_BuyByAmount.ret.record[1].commission = R(5)
       /\ (/\ AmountBuy(call')
           /\ call'.allow_partial
           /\ RLe(SpendOf(trade_cost, call'.price,
                          LotsOrOneLot(Val(call'.amount), call'.price)), cash)) =>
           FilledExactly(call', LotsOrOneLot(Val(call'.amount), call'.price))]_vars

\* C12 witness: a buy sized by an amount worth one lot or more has filled whole lots.
C12_Witness_WholeLotsFilled ==
    /\ AmountBuy(call)
    /\ call.allow_partial
    /\ RLe(RMul(R(100), call.price), Val(call.amount))
    /\ ret.kind = "record"
    /\ LastRecord.shares = 100
    /\ positions[call.symbol].shares >= 100

\* The share count a buy call requests
Requested(c) ==
    IF c.shares = None THEN buy_shares_from_amount(Val(c.amount), c.price, c.allow_partial)
    ELSE Val(c.shares)

\* C5: a buy that requests N shares and cannot afford them ends in no trade or in a
\* fill that is a positive multiple of 100 not above N.
C5_ReducedFill ==
    [][(/\ call'.op = "buy"
        /\ RLt(Zero, call'.price)
        /\ call'.shares # None \/ call'.amount # None
        /\ RLt(cash, RAdd(RMul(call'.price, R(Requested(call'))),
                          calculate(trade_cost, call'.price, Requested(call')).total_cost))) =>
        \/ ret'.kind = "None"
        \/ /\ ret'.kind = "record"
           /\ ret'.record[1].shares > 0
           /\ ret'.record[1].shares % LotSize = 0
           /\ ret'.record[1].shares <= Requested(call')]_vars

\* C6: trade_history is never empty, its first entry is an INIT record carrying
\* initial_cash, and no later entry is an INIT record.
C6_InitRecordFirst ==
    /\ Len(trade_history) >= 1
    /\ trade_history[1].trade_type = "INIT"
    /\ trade_history[1].cash_change = initial_cash
    /\ \A i \in 2..Len(trade_history) : trade_history[i].trade_type # "INIT"

\* C9: every snapshot's total_value is its cash plus the sum of its positions_value.
C9_SnapshotTotal ==
    \A i \in 1..Len(daily_portfolio_value) :
        daily_portfolio_value[i].total_value =
            RAdd(daily_portfolio_value[i].cash,
                 SumValues(daily_portfolio_value[i].positions_value))

\* C9 witness: a snapshot was taken with a price dictionary that lacks a held symbol
\* and prices another held symbol.
C9_Witness_PartialPrices ==
    /\ call.op = "update_portfolio_value"
    /\ \E s \in DOMAIN positions : positions[s].shares > 0 /\ s \notin DOMAIN call.price_dict
    /\ \E s \in DOMAIN positions : positions[s].shares > 0 /\ s \in DOMAIN call.price_dict

\* C10: the cost model applied to zero shares returns commission, slippage and
\* total_cost all 0.
C10_ZeroSharesZeroCost ==
    (call.op \in {"buy", "sell"} /\ ret.kind = "record" /\ LastRecord.shares = 0) =>
        /\ LastRecord.commission = Zero
        /\ LastRecord.slippage = Zero
        /\ LastRecord.total_cost = Zero

\* The shares of symbol held in the account
Held(symbol) == get_position(positions, symbol).shares

\* C13: a sell at price > 0 that requests more shares than the H > 0 held does not
\* raise, records a fill of exactly H shares and leaves the position with 0 shares; no
\* SELL record carries more shares than were held before the sell.
C13_SellClamped ==
    [][call'.op = "sell" =>
        /\ (/\ RLt(Zero, call'.price)
            /\ call'.shares # None
            /\ Held(call'.symbol) > 0
            /\ Val(call'.shares) > Held(call'.symbol)) =>
               /\ ret'.kind = "record"
               /\ ret'.record[1].shares = Held(call'.symbol)
               /\ positions'[call'.symbol].shares = 0
        /\ ret'.kind = "record" => ret'.record[1].shares <= Held(call'.symbol)]_vars

\* C13 witness: a sell of more shares than held has been filled with the held shares.
C13_Witness_OverRequest ==
    /\ call.op = "sell"
    /\ call.shares # None
    /\ ret.kind = "record"
    /\ LastRecord.shares > 0
    /\ Val(call.shares) > LastRecord.shares
    /\ positions[call.symbol].shares = 0

\* A sell sized by a fraction outside [0, 1], at a valid price
FractionOutOfRange(c) ==
    /\ c.op = "sell"
    /\ RLt(Zero, c.price)
    /\ c.shares = None
    /\ c.amount = None
    /\ c.percent # None
    /\ RLt(Val(c.percent), Zero) \/ RLt(One, Val(c.percent))

\* C14: every sell whose fraction is outside [0, 1] fails with the fraction error,
\* whether the symbol is held, held with zero shares or never bought, and leaves the
\* account unchanged.
C14_InvalidFractionAlwaysFails ==
    [][FractionOutOfRange(call') =>
        /\ ret'.kind = "raise"
        /\ ret'.error = "ValueError: percent"
        /\ UNCHANGED <<cash, positions, trade_history, daily_portfolio_value>>]_vars

\* The call just made is a sell of the share count, symbol and price of the buy made
\* immediately before it, which returned a record
SellAfterBuy ==
    /\ call.op = "buy"
    /\ ret.kind = "record"
    /\ call.shares # None
    /\ call'.op = "sell"
    /\ call'.shares = call.shares
    /\ call'.symbol = call.symbol
    /\ call'.price = call.price

\* The cash held before the buy that returned the last record
CashBeforeLast == RSub(LastRecord.cash_balance, LastRecord.cash_change)

\* C15: with commission_rate = 0 and slippage_rate = 0, from a state whose cash covers
\* N*price, buying N shares and then selling N shares at the same price leaves cash
\* as it was before the buy.
C15_Original_RoundTrip ==
    [][(/\ SellAfterBuy
        /\ trade_cost.commission_rate = Zero
        /\ trade_cost.slippage_rate = Zero
        /\ RLe(RMul(R(Val(call.shares)), call.price), CashBeforeLast)) =>
        cash' = CashBeforeLast]_vars

\* C15 amended: the same when min_commission is 0 as well.
C15_RoundTripWithoutMinimum ==
    [][(/\ SellAfterBuy
        /\ trade_cost.commission_rate = Zero
        /\ trade_cost.slippage_rate = Zero
        /\ trade_cost.min_commission = Zero
        /\ RLe(RMul(R(Val(call.shares)), call.price), CashBeforeLast)) =>
        cash' = CashBeforeLast]_vars

\* C15 witness: a costless account has bought a positive share count and sold it back
\* at the same price.
C15_Witness_SoldBack ==
    /\ call.op = "sell"
    /\ call.shares # None
    /\ ret.kind = "record"
    /\ trade_cost = ZeroTradeCost
    /\ Len(trade_history) >= 2
    /\ LET b == trade_history[Len(trade_history) - 1]
       IN  /\ b.trade_type = "BUY"
           /\ b.shares = Val(call.shares)
           /\ b.shares = LastRecord.shares
           /\ b.shares > 0
           /\ b.price = LastRecord.price
           /\ b.symbol = LastRecord.symbol
           /\ cash = RSub(b.cash_balance, b.cash_change)

\* C16: reset leaves cash = initial_cash, no positions, no snapshots and a
\* trade_history of exactly one INIT record; a reset made right after a reset leaves
\* the account as the first one left it (the INIT record carrying the time of the call
\* that wrote it).
C16_ResetIdempotent ==
    [][call'.op = "reset" =>
        /\ cash' = initial_cash
        /\ positions' = EmptyDict
        /\ daily_portfolio_value' = <<>>
        /\ Len(trade_history') = 1
        /\ trade_history'[1].trade_type = "INIT"
        /\ trade_history'[1].cash_change = initial_cash
        /\ trade_history'[1].cash_balance = initial_cash
        /\ call'.prev = "reset" =>
              /\ cash' = cash
              /\ positions' = positions
              /\ daily_portfolio_value' = daily_portfolio_value
              /\ Len(trade_history) = 1
              /\ [trade_history'[1] EXCEPT !.date = trade_history[1].date] = trade_history[1]]_vars

\* C16 witness: reset has been called twice in a row.
C16_Witness_ResetTwice ==
    /\ call.op = "reset"
    /\ call.prev = "reset"
    /\ Len(trade_history) = 1

---------------------------------------------------------------------------
(* Properties of the per-bar loops under SpecRun.                          *)

\* C7: a run over n bars appends exactly n valuation snapshots, the k-th dated with
\* the k-th bar's timestamp.
C7_SnapshotPerBar ==
    run.status = "done" =>
        /\ Len(daily_portfolio_value) = run.n
        /\ \A k \in 1..Len(daily_portfolio_value) : daily_portfolio_value[k].date = k

\* C8: no outcome of a buy or sell call stops the iteration: the loop is never left
\* before the last bar.
C8_LoopReachesLastBar == run.status # "raised"

\* A step that processes one bar of a run: the bar's row is the last of the df after it
BarStep == run.status = "running" /\ Len(run'.df) = Len(run.df) + 1

BarRow == run'.df[Len(run'.df)]

\* The traded symbol's shares before and after the step
SharesBefore == get_position(positions, run.symbol).shares
SharesAfter == get_position(positions', run.symbol).shares

\* The records the step has appended to trade_history
NewRecords == SubSeq(trade_history', Len(trade_history) + 1, Len(trade_history'))

\* The adverse move from buy_price to close reaches stop_loss_pct, or the favourable
\* move reaches take_profit_pct
ExitTriggered(buy_price, close) ==
    \/ RLe(stop_loss_pct, RDiv(RSub(buy_price, close), buy_price))
    \/ RLe(take_profit_pct, RDiv(RSub(close, buy_price), buy_price))

\* C21: in CustomStrategy.run, on every bar where a position is held with a tracked
\* buy_price and the move from it reaches stop_loss_pct or take_profit_pct, the whole
\* position is sold on that bar as a stop-loss or take-profit exit, buy_price is
\* cleared, and no BUY and no signal SELL is made, whatever the bar's signal is.
C21_ForcedExit ==
    [][(/\ BarStep
        /\ run.strategy = "CustomStrategy"
        /\ SharesBefore > 0
        /\ RLt(Zero, run.buy_price)
        /\ ExitTriggered(run.buy_price, BarRow.close))
       => /\ SharesAfter = 0
          /\ run'.buy_price = Zero
          /\ BarRow.trade_type \in {"SELL_STOP_LOSS", "SELL_TAKE_PROFIT"}
          /\ Len(NewRecords) = 1
          /\ NewRecords[1].trade_type = "SELL"
          /\ NewRecords[1].shares = SharesBefore]_vars

\* C22: after a bar whose signal is -1 while the traded symbol is held and the close is
\* positive, the position holds 0 shares and the last record of trade_history is a
\* SELL of exactly the shares held before the bar; on a bar whose signal is -1 with no
\* position, no trade is recorded and cash is unchanged.
C22_ExitSignalSellsAll ==
    [][(BarStep /\ BarRow.signal = -1)
       => /\ (SharesBefore > 0 /\ RLt(Zero, BarRow.close))
               => /\ SharesAfter = 0
                  /\ Len(NewRecords) = 1
                  /\ trade_history'[Len(trade_history')].trade_type = "SELL"
                  /\ trade_history'[Len(trade_history')].shares = SharesBefore
          /\ SharesBefore = 0 => (trade_history' = trade_history /\ cash' = cash)]_vars

\* C22 witness: the last bar processed had signal -1 with the symbol held, and the
\* whole position was sold on it by the signal.
C22_Witness_SoldOnExitSignal ==
    /\ run.df # <<>>
    /\ run.df[Len(run.df)].signal = -1
    /\ run.df[Len(run.df)].position > 0
    /\ run.df[Len(run.df)].trade_type = "SELL"
    /\ get_position(positions, run.symbol).shares = 0
    /\ trade_history[Len(trade_history)].shares = run.df[Len(run.df)].position

\* C25: the final portfolio value from which Performance.calculate derives
\* total_return and annual_return is the total_value of the run's last valuation
\* snapshot, also when a trade is made on the last bar.
C25_FinalValueIsLastSnapshot ==
    (/\ performance.entry = "calculate"
     /\ "final_portfolio_value" \in DOMAIN performance.stats
     /\ daily_portfolio_value # <<>>)
        => performance.stats.final_portfolio_value
               = daily_portfolio_value[Len(daily_portfolio_value)].total_value

\* C30: for every bar of a run, the cash recorded in the bar's df row is the account's
\* cash after the bar has been processed, on bars with a trade and on bars without.
C30_RowCashIsAccountCash ==
    [][(BarStep /\ run'.status = "running") => BarRow.cash = cash']_vars

---------------------------------------------------------------------------
(* Properties of the portfolio run under SpecPortfolio.                     *)

\* The positions in trade_history of the BUY and SELL records
Trades == SelectSeq([i \in 1..Len(trade_history) |-> i],
                    LAMBDA i : trade_history[i].trade_type \in {"BUY", "SELL"})

\* C23: after a single-symbol or a multi-symbol portfolio run, the dates of the
\* valuation snapshots are strictly ascending and the dates of the BUY and SELL
\* records of trade_history are non-decreasing.
C23_AscendingDates ==
    run.status = "done" =>
        /\ \A k \in 1..(Len(daily_portfolio_value) - 1) :
              daily_portfolio_value[k].date < daily_portfolio_value[k + 1].date
        /\ \A k \in 1..(Len(Trades) - 1) :
              trade_history[Trades[k]].date <= trade_history[Trades[k + 1]].date

\* The symbols held with shares > 0
HeldSymbols == {symbol \in DOMAIN positions : positions[symbol].shares > 0}

\* C29: every snapshot values the whole account: the snapshot a bar appends has a
\* positions_value entry for every symbol held with shares > 0 at that moment, and its
\* total_value is cash plus the market value of all held positions.
C29_SnapshotValuesAllHeld ==
    [][(BarStep /\ Len(daily_portfolio_value') = Len(daily_portfolio_value) + 1)
       => \A symbol \in DOMAIN positions' :
              positions'[symbol].shares > 0
                  => symbol \in DOMAIN daily_portfolio_value'[Len(daily_portfolio_value')].positions_value]_vars

---------------------------------------------------------------------------
(* Properties of the cost model under SpecCost.                            *)

\* C11: for price > 0 and shares >= 0, calculate returns commission =
\* max(price*shares*commission_rate, min_commission), slippage =
\* price*shares*slippage_rate and total_cost = commission + slippage, all >= 0, and
\* leaves the cost parameters unchanged; rates 0.0003/5.0/0.0001 at price 100 and
\* shares 100 give 5, 1, 6.
C11_CostFormula ==
    [][call'.op = "calculate" =>
        LET price == call'.price
            shares == R(Val(call'.shares))
            r == ret'.record[1]
            product == RMul(price, shares)
            scaled == RMul(product, trade_cost.commission_rate)
        IN  /\ r.commission = (IF RLt(scaled, trade_cost.min_commission)
                                THEN trade_cost.min_commission ELSE scaled)
            /\ r.slippage = RMul(product, trade_cost.slippage_rate)
            /\ r.total_cost = RAdd(r.commission, r.slippage)
            /\ RLe(Zero, r.commission) /\ RLe(Zero, r.slippage) /\ RLe(Zero, r.total_cost)
            /\ trade_cost' = trade_cost
            /\ (trade_cost = DefaultTradeCost /\ price = R(100) /\ shares = R(100)) =>
                  r = [commission |-> R(5), slippage |-> One, total_cost |-> R(6)]]_vars

\* C11 witness: the default configuration has priced 100 shares at 100, the minimum
\* commission applying.
C11_Witness_MinimumApplies ==
    /\ call.op = "calculate"
    /\ trade_cost = DefaultTradeCost
    /\ call.price = R(100)
    /\ call.shares = Some(100)
    /\ ret.record[1].commission = trade_cost.min_commission

---------------------------------------------------------------------------
(* Properties of the analytics under SpecPerf.                             *)

\* The positions in trade_history of the trades of a type, of one symbol or ("") of all
TradesOf(trade_type, symbol) ==
    SelectSeq([i \in 1..Len(trade_history) |-> i],
              LAMBDA i : /\ trade_history[i].trade_type = trade_type
                         /\ symbol \in {"", trade_history[i].symbol})

\* The place of trade x in the sequence of trades seq, 0 if it is not there
PlaceIn(seq, x) ==
    IF \E i \in 1..Len(seq) : seq[i] = x THEN CHOOSE i \in 1..Len(seq) : seq[i] = x ELSE 0

DateOf(x) == trade_history[x].date

\* pairs is what the greedy two-cursor pairing gives on the BUYs and the SELLs: the
\* k-th pair holds the k-th BUY; its SELL comes after the SELL of the pair before and
\* is later than its BUY; every SELL passed over is not later than the BUY that was
\* current; and when BUYs are left, no SELL after the last pair is later than the
\* first BUY left.
GreedyPairing(buys, sells, pairs) ==
    LET place(k) == IF k = 0 THEN 0 ELSE PlaceIn(sells, pairs[k][2])
    IN  /\ Len(pairs) <= Len(buys)
        /\ \A k \in 1..Len(pairs) :
              /\ pairs[k][1] = buys[k]
              /\ place(k) > place(k - 1)
              /\ DateOf(pairs[k][2]) > DateOf(pairs[k][1])
              /\ \A j \in (place(k - 1) + 1)..(place(k) - 1) : DateOf(sells[j]) <= DateOf(buys[k])
        /\ Len(pairs) < Len(buys) =>
              \A j \in (place(Len(pairs)) + 1)..Len(sells) :
                  DateOf(sells[j]) <= DateOf(buys[Len(pairs) + 1])

\* The pairs whose BUY is of a symbol
PairsOfSymbol(pairs, symbol) ==
    SelectSeq(pairs, LAMBDA pr : trade_history[pr[1]].symbol = symbol)

\* C17: the pairs calculate reconstructs are the greedy two-cursor pairing of the
\* history's BUYs and SELLs, and those of calculate_portfolio are, symbol by symbol,
\* the greedy pairing of the symbol's BUYs and SELLs: every pair's SELL is later than
\* its BUY, no trade is in two pairs, a SELL not later than the current BUY is passed
\* over without consuming the BUY, and the paired BUYs are a prefix of the BUYs.
C17_GreedyPairing ==
    /\ (performance.entry = "calculate" /\ Len(trade_history) > 1) =>
          GreedyPairing(TradesOf("BUY", ""), TradesOf("SELL", ""), performance.paired_trades)
    /\ (performance.entry = "calculate_portfolio" /\ daily_portfolio_value # <<>>) =>
          \A symbol \in {trade_history[i].symbol : i \in 1..Len(trade_history)} \ {""} :
              GreedyPairing(TradesOf("BUY", symbol), TradesOf("SELL", symbol),
                            PairsOfSymbol(performance.paired_trades, symbol))

\* C17 witness: two BUYs followed by one later SELL have given one pair, the first
\* BUY with that SELL.
C17_Witness_TwoBuysOneSell ==
    /\ performance.entry = "calculate"
    /\ Len(TradesOf("BUY", "")) = 2
    /\ Len(TradesOf("SELL", "")) = 1
    /\ TradesOf("SELL", "")[1] > TradesOf("BUY", "")[2]
    /\ performance.paired_trades = << <<TradesOf("BUY", "")[1], TradesOf("SELL", "")[1]>> >>

\* C18: in the pairs reconstructed by calculate and by calculate_portfolio, the BUY and
\* the SELL of every pair carry the same symbol, whatever symbols the history holds.
C18_PairsSameSymbol ==
    performance.entry \in {"calculate", "calculate_portfolio"} =>
        \A k \in 1..Len(performance.paired_trades) :
            trade_history[performance.paired_trades[k][1]].symbol
                = trade_history[performance.paired_trades[k][2]].symbol

\* The statistics reported as numbers, and those reported as counts
RatioStatistics ==
    {"total_return", "annual_return", "max_drawdown", "sharpe_ratio", "win_rate",
     "profit_factor", "avg_profit", "avg_loss", "max_profit", "max_loss",
     "avg_holding_days"}

CountStatistics == {"total_trades", "winning_trades", "losing_trades"}

\* trade_history holds the INIT record and nothing else
InitOnly == Len(trade_history) = 1 /\ trade_history[1].trade_type = "INIT"

\* C19: when trade_history holds only the INIT record, calculate and
\* calculate_portfolio both complete and report every statistic as zero.
C19_InitOnlyAllZero ==
    (InitOnly /\ performance.entry \in {"calculate", "calculate_portfolio"}) =>
        /\ (RatioStatistics \cup CountStatistics) \subseteq DOMAIN performance.stats
        /\ \A k \in RatioStatistics : performance.stats[k] = Zero
        /\ \A k \in CountStatistics : performance.stats[k] = 0

\* C19 witness: calculate_portfolio has computed the statistics of an INIT-only
\* history from snapshots taken on two different days.
C19_Witness_PortfolioInitOnly ==
    /\ InitOnly
    /\ performance.entry = "calculate_portfolio"
    /\ Len(daily_portfolio_value) >= 2
    /\ daily_portfolio_value[Len(daily_portfolio_value)].date > daily_portfolio_value[1].date
    /\ "final_portfolio_value" \in DOMAIN performance.stats

\* The days from BUY to SELL summed over pairs
RECURSIVE HoldingDays(_)
HoldingDays(pairs) ==
    IF pairs = <<>> THEN 0
    ELSE (DateOf(Head(pairs)[2]) - DateOf(Head(pairs)[1])) + HoldingDays(Tail(pairs))

\* The count of break-even pairs, which the early return does not report
BreakEvenTrades ==
    IF "break_even_trades" \in DOMAIN performance.stats
    THEN performance.stats.break_even_trades ELSE 0

\* C20: the trade statistics of calculate are aggregates of the reconstructed pairs:
\* total_trades is the number of pairs, the winning, losing and break-even counts add
\* up to it, winning_trades counts the pairs of positive profit, win_rate is
\* winning_trades / total_trades * 100 (0 without pairs) and avg_holding_days is the
\* mean of sell.date - buy.date in days.
C20_TradeStatistics ==
    performance.entry = "calculate" =>
        LET stats == performance.stats
            pairs == performance.paired_trades
        IN  /\ stats.total_trades = Len(pairs)
            /\ stats.winning_trades + stats.losing_trades + BreakEvenTrades = stats.total_trades
            /\ stats.winning_trades =
                  Cardinality({k \in 1..Len(pairs) : RLt(Zero, profit_of(trade_history, pairs[k]))})
            /\ stats.win_rate[1] * stats.total_trades
                  = 100 * stats.winning_trades * stats.win_rate[2]
            /\ stats.total_trades = 0 => stats.win_rate = Zero /\ stats.avg_holding_days = Zero
            /\ stats.avg_holding_days[1] * stats.total_trades
                  = HoldingDays(pairs) * stats.avg_holding_days[2]

\* C20 witness: one BUY at day 0 and one SELL at day 10 with a positive profit have
\* given win_rate 100, total_trades 1 and avg_holding_days 10.
C20_Witness_OneWinningTrade ==
    /\ performance.entry = "calculate"
    /\ Len(TradesOf("BUY", "")) = 1
    /\ Len(TradesOf("SELL", "")) = 1
    /\ DateOf(TradesOf("BUY", "")[1]) = 0
    /\ DateOf(TradesOf("SELL", "")[1]) = 10
    /\ performance.paired_trades # <<>>
    /\ RLt(Zero, profit_of(trade_history, performance.paired_trades[1]))
    /\ performance.stats.win_rate = R(100)
    /\ performance.stats.total_trades = 1
    /\ performance.stats.avg_holding_days = R(10)

---------------------------------------------------------------------------
(* Properties of the positions under SpecPerf, where positions are bought   *)
(* at several prices and sold in part.                                      *)

\* The Position of the symbol of the call a step makes, before and after the step
PositionBefore == get_position(positions, call'.symbol)
PositionAfter == get_position(positions', call'.symbol)

\* C24: in every state reached by buy and sell calls, every Position has
\* cost_basis = shares * avg_price; a buy that adds s > 0 shares at price p raises the
\* cost_basis by exactly s * p; and a sell that leaves shares > 0 leaves avg_price
\* unchanged.
C24_CostBasis ==
    [][/\ \A symbol \in DOMAIN positions' :
             positions'[symbol].cost_basis
                 = RMul(R(positions'[symbol].shares), positions'[symbol].avg_price)
       /\ (clock' = clock + 1 /\ call'.op = "buy" /\ ret'.kind = "record"
               /\ ret'.record[1].shares > 0)
             => PositionAfter.cost_basis
                    = RAdd(PositionBefore.cost_basis,
                           RMul(R(ret'.record[1].shares), call'.price))
       /\ (clock' = clock + 1 /\ call'.op = "sell" /\ ret'.kind = "record"
               /\ PositionAfter.shares > 0)
             => PositionAfter.avg_price = PositionBefore.avg_price]_vars

\* C24 witness: a sell has removed part of a position that was bought at two prices.
C24_Witness_PartialSale ==
    /\ call.op = "sell"
    /\ ret.kind = "record"
    /\ LastRecord.shares > 0
    /\ positions[call.symbol].shares > 0
    /\ positions[call.symbol].avg_price \notin {R(1), R(2), R(4)}

---------------------------------------------------------------------------
(* Conservation properties of the account under Spec.                       *)

\* The sum of cash_change over the BUY and SELL records of a history
RECURSIVE SumCashChange(_)
SumCashChange(th) ==
    IF th = <<>> THEN Zero
    ELSE RAdd(IF Head(th).trade_type \in {"BUY", "SELL"} THEN Head(th).cash_change ELSE Zero,
              SumCashChange(Tail(th)))

\* C26: in every state reached by buy and sell calls since construction or the last
\* reset, cash is initial_cash plus the sum of cash_change over the BUY and SELL
\* records of trade_history, and the cash_balance of the last record is the cash.
C26_CashConservation ==
    /\ cash = RAdd(initial_cash, SumCashChange(trade_history))
    /\ trade_history # <<>> => trade_history[Len(trade_history)].cash_balance = cash

\* C26 witness: a buy and a sell, both charged costs, are in the history.
C26_Witness_BuyAndSellCharged ==
    /\ \E i \in 1..Len(trade_history) :
          trade_history[i].trade_type = "BUY" /\ RLt(Zero, trade_history[i].total_cost)
    /\ \E i \in 1..Len(trade_history) :
          trade_history[i].trade_type = "SELL" /\ RLt(Zero, trade_history[i].total_cost)

\* The sum of shares over the records of a type and a symbol in a history
RECURSIVE SumShares(_, _, _)
SumShares(th, trade_type, symbol) ==
    IF th = <<>> THEN 0
    ELSE (IF Head(th).trade_type = trade_type /\ Head(th).symbol = symbol
          THEN Head(th).shares ELSE 0)
         + SumShares(Tail(th), trade_type, symbol)

\* C27: in every state reached by buy and sell calls with non-negative sizes, for
\* every symbol the Position's shares are the shares of the symbol's BUY records minus
\* the shares of its SELL records.
C27_ShareConservation ==
    \A symbol \in Symbols :
        Held(symbol) = SumShares(trade_history, "BUY", symbol)
                           - SumShares(trade_history, "SELL", symbol)

\* C27 witness: part of a position has been sold.
C27_Witness_PartlySold ==
    \E symbol \in Symbols :
        /\ Held(symbol) > 0
        /\ SumShares(trade_history, "SELL", symbol) > 0

\* C28: no zero-share trade is committed: every BUY and SELL record of trade_history
\* has shares > 0, so a buy or sell whose size resolves to zero shares appends no
\* record and leaves cash as it was.
C28_NoZeroShareTrade ==
    \A i \in 1..Len(trade_history) :
        trade_history[i].trade_type \in {"BUY", "SELL"} => trade_history[i].shares > 0

=============================================================================
